---- MODULE Spec2Model ----
(***************************************************************************)
(* Model of data_strobe.py: file2bits (bytes -> bits), frame (bits ->      *)
(* framed packets with preamble, length field and CRC trailer), strobe     *)
(* (one timed brightness command per bit, then a restoring command) and    *)
(* main (the pipeline that drives the three).                              *)
(*                                                                         *)
(* Time is counted in milliseconds.  The display (xrandr through the       *)
(* shell) is the environment: every command takes a nondeterministic time  *)
(* and may fail; the query for the primary output may find none.           *)
(***************************************************************************)
EXTENDS Integers, Sequences, FiniteSets, TLC

\* ------------------------------------------------------------------ bounds
MaxBytes  == 1      \* longest input file, in bytes (Spec)
MaxBits   == 5      \* longest bit list handed to frame() directly (SpecFrame)
MaxFaults == 1      \* most display failures in one run

\* ------------------------------------------------------- program constants
code_time == 33     \* strobe: code_time = 0.033 s

\* -------------------------------------------------------------- input sets
ByteVals    == {0, 65, 128, 255}            \* byte values a file is made of
CapVals     == {-1, 0, 3, 8, 255, 256}      \* -d/--data_len values (Spec)
FrameCaps   == {-1, 0, 1, 2, 3, 4, 255, 256} \* data_len values (SpecFrame)
Brightness  == {"0.5", "0.9"}               \* -b/--brightness values
ExecTimes   == {10, 33, 40}                 \* time one display command takes
Outputs     == {"eDP-1"}                    \* name of the primary output

VARIABLES
    pc,          \* position of main
    file,        \* content of the input file, a sequence of bytes
    data_len,    \* main: data_len
    brightness,  \* main: brightness
    bits_in,     \* the bit list as handed to frame(), before it is consumed
    raw_data,    \* main: raw_data (frame() pops its bits)
    frames,      \* main: frames, [valid, list]; valid = FALSE is Python's False
    f_idx,       \* main: index of the frame being strobed
    b_idx,       \* strobe: index of the next bit of the frame
    screen,      \* strobe: screen ("" when no primary output was found)
    timed,       \* levels of the timed brightness commands issued, in order
    restores,    \* number of restoring commands (strobe's last line) issued
    queries,     \* number of xrandr -q queries issued
    last_level,  \* level of the last brightness command issued ("" if none)
    exec_time,   \* strobe: exec_time of the last timed command (-1 if none)
    slept,       \* duration of the sleep that followed it
    gap,         \* time since the start of the last timed command
    spacing,     \* start-to-start time of the last two timed commands (-1 if none)
    prev_exec,   \* exec_time of the timed command before the last one
    same_call,   \* the last two timed commands belong to one strobe() call
    overran,     \* some timed command took code_time or longer
    faults,      \* number of display failures so far
    after_fault  \* a display operation was issued after a display failure

vars == <<pc, file, data_len, brightness, bits_in, raw_data, frames, f_idx,
          b_idx, screen, timed, restores, queries, last_level, exec_time,
          slept, gap, spacing, prev_exec, same_call, overran, faults,
          after_fault>>

\* ------------------------------------------------------------ bit helpers
SeqsUpTo(S, n) == UNION {[1..k -> S] : k \in 0..n}

RECURSIVE BinDigits(_)
\* the binary digits of n >= 0, most significant first, no leading zeros
BinDigits(n) == IF n < 2 THEN <<n>> ELSE Append(BinDigits(n \div 2), n % 2)

\* the digits without the zero padding ('{0:b}')
FormatNoPad(n, w) == BinDigits(n)

\* [int(c) for c in '{0:0<w>b}'.format(n)]: at least w digits, zero padded
Format(n, w) ==
    LET d == BinDigits(n)
    IN  IF Len(d) >= w THEN d ELSE [i \in 1..(w - Len(d)) |-> 0] \o d

RECURSIVE BinVal(_)
\* the unsigned value of a bit sequence, most significant bit first
BinVal(s) == IF s = <<>> THEN 0
             ELSE 2 * BinVal(SubSeq(s, 1, Len(s) - 1)) + s[Len(s)]

RECURSIVE Concat(_)
Concat(ss) == IF ss = <<>> THEN <<>> ELSE Head(ss) \o Concat(Tail(ss))

\* ---------------------------------------------------------------- file2bits
\* byte.decode() (UTF-8) of a single byte succeeds only for 0x00..0x7F
Decodable(b) == b < 128

\* file2bits: the bits of every byte, MSB first; ok = FALSE when decode() raises
file2bits(bytes) ==
    [ok   |-> \A i \in 1..Len(bytes) : Decodable(bytes[i]),
     bits |-> Concat([i \in 1..Len(bytes) |-> Format(bytes[i], 8)])]

\* -------------------------------------------------------------------- CRC
RECURSIVE Xor(_, _)
\* bitwise exclusive or of two naturals
Xor(a, b) == IF a = 0 THEN b
             ELSE IF b = 0 THEN a
             ELSE 2 * Xor(a \div 2, b \div 2) + ((a + b) % 2)

RECURSIVE CrcShift(_, _)
\* k shifts of the 16-bit register, MSB first, polynomial 0x1021
CrcShift(reg, k) ==
    IF k = 0 THEN reg
    ELSE CrcShift(IF reg >= 32768 THEN Xor((2 * reg) % 65536, 4129)
                  ELSE 2 * reg, k - 1)

RECURSIVE CrcUpdate(_, _)
\* the register after the elements of data, each taken as one byte
CrcUpdate(reg, data) ==
    IF data = <<>> THEN reg
    ELSE LET r == CrcShift(Xor(reg, 256 * Head(data)), 8)
         IN  IF r < 65536 THEN CrcUpdate(r, Tail(data))
             ELSE CrcUpdate(r % 65536, Tail(data))

\* CrcCalculator(Crc16.CCITT, True).calculate_checksum(data): width 16,
\* polynomial 0x1021, initial value 0, no reflection, no final xor
\* (True selects the table based register, which computes the same value)
calculate_checksum(data) == CrcUpdate(0, data)

RECURSIVE CrcShiftReflected(_, _)
\* k shifts of the reflected register, LSB first, polynomial 0x8408
CrcShiftReflected(reg, k) ==
    IF k = 0 THEN reg
    ELSE CrcShiftReflected(IF reg % 2 = 1 THEN Xor(reg \div 2, 33800)
                           ELSE reg \div 2, k - 1)

RECURSIVE CrcUpdateReflected(_, _)
CrcUpdateReflected(reg, data) ==
    IF data = <<>> THEN reg
    ELSE LET r == CrcShiftReflected(Xor(reg, Head(data)), 8)
         IN  IF r < 65536 THEN CrcUpdateReflected(r, Tail(data))
             ELSE CrcUpdateReflected(r % 65536, Tail(data))

\* CRC-16/CCITT with reflected input and output (initial value 0)
ReflectedChecksum(data) == CrcUpdateReflected(0, data)

\* ------------------------------------------------------------------ frame
preamble == <<0, 1, 0, 1, 0, 1, 0, 1>>

\* Python 3 round() of the rational num/den (num >= 0, den > 0): half to even
Round(num, den) ==
    LET q == num \div den
        r == num % den
    IN  IF 2 * r < den THEN q
        ELSE IF 2 * r > den THEN q + 1
        ELSE IF q % 2 = 0 THEN q ELSE q + 1

\* int(len(data)/data_len)
NFrames(K, L) == K \div L

\* what integer division (Python 2's /) would leave: no fractional part
LastFrameLenIntDiv(K, L) == Round((NFrames(K, L) - NFrames(K, L)) * L, 1)

\* round((nframes - int(nframes)) * data_len) with nframes = K/L,
\* computed on the rational K/L
LastFrameLen(K, L) == Round((K - NFrames(K, L) * L) * L, L)

\* a checksum that also covers the preamble and the length field
FrameChecksumWholeFrame(frame_len, frame_data) ==
    calculate_checksum(preamble \o frame_len \o frame_data)

\* the checksum frame() puts into a frame: over frame_data alone
FrameChecksum(frame_len, frame_data) == calculate_checksum(frame_data)

\* a range check that lets 256 through
ValidCapOffByOne(L) == L > 0 /\ L <= 256

\* data_len > 0 and data_len < 256
ValidCap(L) == L > 0 /\ L < 256

RECURSIVE FrameLoop(_, _, _, _, _, _)
\* for i in range(nframes + 1): ... ; returns the frames and what is left of data
FrameLoop(i, nframes, dlen, last_frame_len, data, acc) ==
    IF i > nframes THEN [list |-> acc, rest |-> data]
    ELSE LET dl == IF i = nframes THEN last_frame_len ELSE dlen
         IN  IF dl > 0
             THEN LET n          == IF Len(data) < dl THEN Len(data) ELSE dl
                      frame_len  == Format(dl, 8)
                      frame_data == SubSeq(data, 1, n)
                      frame_crc  == Format(FrameChecksum(frame_len, frame_data), 16)
                  IN  FrameLoop(i + 1, nframes, dl, last_frame_len,
                                SubSeq(data, n + 1, Len(data)),
                                Append(acc, preamble \o frame_len \o frame_data
                                            \o frame_crc))
             ELSE FrameLoop(i + 1, nframes, dl, last_frame_len, data, acc)

\* frame(data, data_len): [valid, list, rest]; valid = FALSE is "return False"
frame(data, L) ==
    IF ValidCap(L)
    THEN LET r == FrameLoop(0, NFrames(Len(data), L), L,
                            LastFrameLen(Len(data), L), data, <<>>)
         IN  [valid |-> TRUE, list |-> r.list, rest |-> r.rest]
    ELSE [valid |-> FALSE, list |-> <<>>, rest |-> data]

\* `if frames:` in main: False and the empty list are both falsy
TruthyNotFalse(fr) == fr.valid

Truthy(fr) == fr.valid /\ fr.list # <<>>

\* ----------------------------------------------------------------- strobe
on_level == "1"

LevelOfSwapped(bit, b) == IF bit # 0 THEN b ELSE on_level

\* `if bit: os.system(on_cmd) else: os.system(off_cmd)`
LevelOf(bit, b) == IF bit # 0 THEN on_level ELSE b

SleepForFullSymbol(e) == code_time

\* `if exec_time < code_time: time.sleep(code_time - exec_time)`
SleepFor(e) == IF e < code_time THEN code_time - e ELSE 0

\* ------------------------------------------------------------ state machine
NoDisplay ==
    /\ f_idx = 0 /\ b_idx = 0 /\ screen = ""
    /\ timed = <<>> /\ restores = 0 /\ queries = 0 /\ last_level = ""
    /\ exec_time = -1 /\ slept = 0 /\ gap = 0 /\ spacing = -1
    /\ prev_exec = -1 /\ same_call = FALSE /\ overran = FALSE
    /\ faults = 0 /\ after_fault = FALSE

\* main after its options are read: a file name, a brightness and a data_len
Init ==
    /\ pc = "file2bits"
    /\ file \in SeqsUpTo(ByteVals, MaxBytes)
    /\ data_len \in CapVals
    /\ brightness \in Brightness
    /\ bits_in = <<>>
    /\ raw_data = <<>>
    /\ frames = [valid |-> FALSE, list |-> <<>>]
    /\ NoDisplay

\* frame() called on its own with a bit list and a data_len
InitFrame ==
    /\ pc = "frame"
    /\ file = <<>>
    /\ data_len \in FrameCaps
    /\ brightness = "0.5"
    /\ bits_in \in SeqsUpTo({0, 1}, MaxBits)
    /\ raw_data = bits_in
    /\ frames = [valid |-> FALSE, list |-> <<>>]
    /\ NoDisplay

display == <<f_idx, b_idx, screen, timed, restores, queries, last_level,
             exec_time, slept, gap, spacing, prev_exec, same_call, overran,
             faults, after_fault>>

\* raw_data = file2bits(filename); an undecodable byte raises out of main
Convert ==
    /\ pc = "file2bits"
    /\ LET r == file2bits(file)
       IN  IF r.ok
           THEN /\ raw_data' = r.bits
                /\ bits_in' = r.bits
                /\ pc' = "frame"
           ELSE /\ UNCHANGED <<raw_data, bits_in>>
                /\ pc' = "crashed"
    /\ UNCHANGED <<file, data_len, brightness, frames>>
    /\ UNCHANGED display

\* frames = frame(raw_data, data_len)
Frame ==
    /\ pc = "frame"
    /\ LET r == frame(raw_data, data_len)
       IN  /\ frames' = [valid |-> r.valid, list |-> r.list]
           /\ raw_data' = r.rest
    /\ pc' = "if_frames"
    /\ UNCHANGED <<file, data_len, brightness, bits_in>>
    /\ UNCHANGED display

\* `if frames: for f in frames: ... else: print('Execution failed!'); sys.exit()`
IfFrames ==
    /\ pc = "if_frames"
    /\ IF Truthy(frames)
       THEN IF Len(frames.list) >= 1
            THEN pc' = "strobe" /\ f_idx' = 1
            ELSE pc' = "finished" /\ f_idx' = 0
       ELSE pc' = "failed" /\ f_idx' = 0
    /\ UNCHANGED <<file, data_len, brightness, bits_in, raw_data, frames>>
    /\ UNCHANGED <<b_idx, screen, timed, restores, queries, last_level,
                   exec_time, slept, gap, spacing, prev_exec, same_call,
                   overran, faults, after_fault>>

\* strobe, up to its loop: xrandr -q | grep "primary"; no primary output (or no
\* xrandr) leaves screen = '' and raises nothing
StrobeQuery ==
    /\ pc = "strobe"
    /\ \E found \in BOOLEAN, name \in Outputs, q \in ExecTimes :
        /\ found \/ faults < MaxFaults
        /\ screen' = IF found THEN name ELSE ""
        /\ faults' = IF found THEN faults ELSE faults + 1
        /\ gap' = IF timed = <<>> THEN 0 ELSE gap + q
    /\ queries' = queries + 1
    /\ after_fault' = (after_fault \/ faults > 0)
    /\ b_idx' = 1
    /\ pc' = IF Len(frames.list[f_idx]) >= 1 THEN "bit" ELSE "restore"
    /\ UNCHANGED <<file, data_len, brightness, bits_in, raw_data, frames>>
    /\ UNCHANGED <<f_idx, timed, restores, last_level, exec_time, slept,
                   spacing, prev_exec, same_call, overran>>

\* one pass of `for bit in data:`; os.system returns the exit status, which
\* strobe drops: a rejected command raises nothing
StrobeBit ==
    /\ pc = "bit"
    /\ \E e \in ExecTimes, accepted \in BOOLEAN :
        /\ accepted \/ faults < MaxFaults
        /\ LET bit == frames.list[f_idx][b_idx]
               lvl == LevelOf(bit, brightness)
           IN  /\ timed' = Append(timed, lvl)
               /\ last_level' = lvl
        /\ faults' = IF accepted THEN faults ELSE faults + 1
        /\ exec_time' = e
        /\ slept' = SleepFor(e)
        /\ gap' = e + SleepFor(e)
        /\ overran' = (overran \/ e >= code_time)
    /\ spacing' = IF timed = <<>> THEN -1 ELSE gap
    /\ prev_exec' = exec_time
    /\ same_call' = (b_idx > 1)
    /\ after_fault' = (after_fault \/ faults > 0)
    /\ b_idx' = b_idx + 1
    /\ pc' = IF b_idx < Len(frames.list[f_idx]) THEN "bit" ELSE "restore"
    /\ UNCHANGED <<file, data_len, brightness, bits_in, raw_data, frames>>
    /\ UNCHANGED <<f_idx, screen, restores, queries>>

\* a restoring command issued only when the last bit left the display dimmed
StrobeRestoreIfDimmed ==
    /\ pc = "restore"
    /\ \E e \in ExecTimes :
        gap' = gap + e
    /\ IF last_level # on_level
       THEN restores' = restores + 1 /\ last_level' = on_level
       ELSE UNCHANGED <<restores, last_level>>
    /\ IF f_idx < Len(frames.list)
       THEN pc' = "strobe" /\ f_idx' = f_idx + 1
       ELSE pc' = "finished" /\ f_idx' = f_idx
    /\ UNCHANGED <<file, data_len, brightness, bits_in, raw_data, frames>>
    /\ UNCHANGED <<b_idx, screen, timed, queries, exec_time, slept, spacing,
                   prev_exec, same_call, overran, faults, after_fault>>

\* strobe's last line, os.system(on_cmd), and main's step to the next frame
StrobeRestore ==
    /\ pc = "restore"
    /\ \E e \in ExecTimes, accepted \in BOOLEAN :
        /\ accepted \/ faults < MaxFaults
        /\ faults' = IF accepted THEN faults ELSE faults + 1
        /\ gap' = gap + e
    /\ restores' = restores + 1
    /\ last_level' = on_level
    /\ after_fault' = (after_fault \/ faults > 0)
    /\ IF f_idx < Len(frames.list)
       THEN pc' = "strobe" /\ f_idx' = f_idx + 1
       ELSE pc' = "finished" /\ f_idx' = f_idx
    /\ UNCHANGED <<file, data_len, brightness, bits_in, raw_data, frames>>
    /\ UNCHANGED <<b_idx, screen, timed, queries, exec_time, slept, spacing,
                   prev_exec, same_call, overran>>

Next == Convert \/ Frame \/ IfFrames \/ StrobeQuery \/ StrobeBit \/ StrobeRestore

Spec == Init /\ [][Next]_vars

NextFrame == Frame \/ IfFrames

SpecFrame == InitFrame /\ [][NextFrame]_vars

\* ------------------------------------------------- fields of a built frame
Payload(f)     == SubSeq(f, 17, Len(f) - 16)
LengthField(f) == SubSeq(f, 9, 16)
CrcField(f)    == SubSeq(f, Len(f) - 15, Len(f))

CeilDiv(K, L) == (K + L - 1) \div L
Max(a, b)     == IF a >= b THEN a ELSE b

\* frame() has returned
Framed == pc \notin {"file2bits", "crashed", "frame"}

\* the bits of all frames, in the order frame() returned them
Flat == Concat(frames.list)

\* the number of bits of the frames before frame k
BitsBefore(k) == Len(Concat(SubSeq(frames.list, 1, k - 1)))

\* the size of the i-th chunk of K bits cut into chunks of L
ChunkLen(i, K, L) == IF i * L <= K THEN L ELSE K - (i - 1) * L

\* ------------------------------------------------------------------ claims

\* C1: for 0 < L < 256 and K input bits, frame returns ceil(K/L) frames when
\* L does not divide K and K/L frames when it does, none of them with an
\* empty payload or a zero length field, and the payload fields of the frames,
\* concatenated in list order, are the K input bits.
C1_FrameCountAndPayload ==
    (Framed /\ data_len > 0 /\ data_len < 256) =>
        LET K == Len(bits_in)
            L == data_len
            n == Len(frames.list)
        IN  /\ frames.valid
            /\ n = IF K % L # 0 THEN CeilDiv(K, L) ELSE K \div L
            /\ \A i \in 1..n :
                /\ Len(frames.list[i]) > 32
                /\ BinVal(LengthField(frames.list[i])) # 0
            /\ Concat([i \in 1..n |-> Payload(frames.list[i])]) = bits_in
            /\ raw_data = <<>>

C1_Witness ==
    /\ Framed /\ data_len = 2 /\ Len(bits_in) = 4
    /\ Len(frames.list) = 2
    /\ 1 \in {bits_in[i] : i \in 1..4}

\* C2: every frame is the preamble 01010101, an 8-bit MSB-first length, as
\* many payload bits as the length says (the chunk of the input it carries) and
\* a 16-bit CRC field: 32 + length bits in all.
C2_FrameLayout ==
    (Framed /\ data_len > 0 /\ data_len < 256) =>
        \A i \in 1..Len(frames.list) :
            LET f == frames.list[i]
                c == ChunkLen(i, Len(bits_in), data_len)
            IN  /\ Len(f) = 32 + c
                /\ SubSeq(f, 1, 8) = <<0, 1, 0, 1, 0, 1, 0, 1>>
                /\ BinVal(LengthField(f)) = c
                /\ BinVal(LengthField(f)) = Len(Payload(f))
                /\ Payload(f) = SubSeq(bits_in, (i - 1) * data_len + 1,
                                       (i - 1) * data_len + c)
                /\ \A j \in 1..Len(f) : f[j] \in {0, 1}

C2_Witness ==
    /\ Framed /\ data_len = 3 /\ Len(bits_in) = 5
    /\ Len(frames.list) = 2
    /\ Len(frames.list[1]) = 35
    /\ Len(frames.list[2]) = 34
    /\ LengthField(frames.list[2]) = <<0, 0, 0, 0, 0, 0, 1, 0>>

\* C3 as stated: the crc field of every frame is the CRC-16/CCITT with
\* reflected input and output of the frame's payload bits.
C3_CrcReflected ==
    (Framed /\ frames.valid) =>
        \A i \in 1..Len(frames.list) :
            LET f == frames.list[i]
            IN  /\ Len(f) >= 32
                /\ CrcField(f) = Format(ReflectedChecksum(Payload(f)), 16)

\* C3 as amended: the crc field of every frame is the 16-bit MSB-first value of
\* the checksum with polynomial 0x1021, initial value 0, no reflection and no
\* final xor, taken over the frame's payload alone, each payload bit fed as one
\* byte; the payload of the single bit 1 has the checksum 0x1021.
C3_CrcOverPayload ==
    (Framed /\ frames.valid) =>
        \A i \in 1..Len(frames.list) :
            LET f == frames.list[i]
            IN  /\ Len(f) >= 32
                /\ CrcField(f) = Format(CrcUpdate(0, Payload(f)), 16)
                /\ Payload(f) = <<1>> =>
                     CrcField(f) = <<0,0,0,1, 0,0,0,0, 0,0,1,0, 0,0,0,1>>
                /\ Payload(f) = <<0, 1>> =>
                     CrcField(f) = <<0,0,0,1, 0,0,0,0, 0,0,1,0, 0,0,0,1>>

C3_Witness ==
    /\ Framed /\ frames.valid
    /\ Len(frames.list) = 2
    /\ Payload(frames.list[1]) = <<1, 0, 1>>
    /\ Payload(frames.list[2]) = <<1>>
    /\ CrcField(frames.list[2]) = <<0,0,0,1, 0,0,0,0, 0,0,1,0, 0,0,0,1>>

\* C4: with data_len <= 0 or data_len >= 256 frame returns False (no frames),
\* main takes its failure exit, and no display operation is ever issued: no
\* timed command, no restoring command, no query for the primary output.
C4_InvalidCapNoTransmission ==
    (data_len <= 0 \/ data_len >= 256) =>
        /\ pc \in {"file2bits", "crashed", "frame", "if_frames", "failed"}
        /\ Framed => (~frames.valid /\ frames.list = <<>>)
        /\ timed = <<>> /\ restores = 0 /\ queries = 0 /\ last_level = ""

C4_Witness ==
    /\ pc = "failed" /\ data_len = 256 /\ Len(bits_in) = 8
    /\ ~frames.valid /\ queries = 0

\* C5: for any byte sequence of length N file2bits returns 8N bits, each 0 or
\* 1, whose groups of 8, read MSB first, are the bytes.
C5_EveryByteConverts ==
    pc # "file2bits" =>
        /\ pc # "crashed"
        /\ Len(bits_in) = 8 * Len(file)
        /\ \A j \in 1..Len(bits_in) : bits_in[j] \in {0, 1}
        /\ \A i \in 1..Len(file) :
               BinVal(SubSeq(bits_in, 8 * (i - 1) + 1, 8 * i)) = file[i]

\* C6 as stated: a finished transmission of M >= 1 frames with B bits issued B
\* timed commands and exactly one restoring command, and ends at on_level.
C6_RestoredOnce ==
    pc = "finished" =>
        /\ restores = 1
        /\ Len(timed) = Len(Flat)
        /\ last_level = on_level

\* C6 as amended: the restoring command is issued once per frame, after the
\* last bit of that frame; a finished transmission of M frames with B bits
\* issued B timed commands and M restoring commands, and ends at on_level.
C6_RestoredPerFrame ==
    /\ pc \in {"strobe", "bit"} => restores = f_idx - 1
    /\ pc = "restore" =>
          /\ restores = f_idx - 1
          /\ Len(timed) = BitsBefore(f_idx + 1)
    /\ pc = "finished" =>
          /\ restores = Len(frames.list)
          /\ Len(timed) = Len(Flat)
          /\ last_level = on_level

C6_Witness ==
    /\ pc = "finished"
    /\ Len(frames.list) = 3
    /\ restores = 3
    /\ timed[Len(timed)] # on_level

\* C7: the timed commands issued so far are, in order, one per bit of the
\* frames in the order frame() returned them: level 1 for a bit 1, the
\* configured brightness for a bit 0; none skipped, repeated or reordered.
C7_OneCommandPerBit ==
    Framed =>
        /\ Len(timed) <= Len(Flat)
        /\ \A i \in 1..Len(timed) :
               timed[i] = IF Flat[i] = 1 THEN "1" ELSE brightness
        /\ pc = "strobe" => Len(timed) = BitsBefore(f_idx)
        /\ pc = "bit" => Len(timed) = BitsBefore(f_idx) + b_idx - 1
        /\ pc = "restore" => Len(timed) = BitsBefore(f_idx + 1)
        /\ pc = "finished" => Len(timed) = Len(Flat)

C7_Witness ==
    /\ pc = "finished"
    /\ Len(frames.list) >= 2
    /\ Len(timed) = Len(Flat)
    /\ brightness = "0.9"
    /\ {timed[i] : i \in 1..Len(timed)} = {"1", "0.9"}

\* C8: after a command that took e < 33 ms strobe sleeps 33 - e, after one
\* that took 33 ms or more it does not sleep; two consecutive symbols of a
\* frame start max(e, 33) ms apart, any two consecutive symbols at least 33 ms
\* apart, and a transmission with an overrun still issues every bit.
C8_SymbolPacing ==
    /\ exec_time # -1 =>
          slept = IF exec_time < 33 THEN 33 - exec_time ELSE 0
    /\ (spacing # -1 /\ same_call) => spacing = Max(prev_exec, 33)
    /\ spacing # -1 => spacing >= 33
    /\ (pc = "finished" /\ overran) => Len(timed) = Len(Flat)

C8_Witness ==
    /\ pc = "bit" /\ same_call
    /\ prev_exec = 40 /\ spacing = 40
    /\ exec_time = 10 /\ slept = 23
    /\ overran

\* C9: once a display operation has failed (no primary output found, or a
\* brightness command rejected), no further display operation is issued.
C9_FaultEndsTransmission == ~after_fault

\* C10: with an empty input and 0 < data_len < 256 frame returns the empty
\* list, main takes the 'Execution failed!' exit, never 'Transmission
\* finished!', and no display operation is issued.
C10_EmptyInputFails ==
    (Len(file) = 0 /\ data_len > 0 /\ data_len < 256) =>
        /\ pc \in {"file2bits", "frame", "if_frames", "failed"}
        /\ Framed => (frames.valid /\ frames.list = <<>>)
        /\ timed = <<>> /\ restores = 0 /\ queries = 0 /\ last_level = ""

C10_Witness ==
    /\ pc = "failed" /\ Len(file) = 0 /\ data_len = 255
    /\ frames.valid /\ frames.list = <<>>

====
